---- MODULE Spec2Model ----
(***************************************************************************)
(* Model of bibliothek-build-monitor (src/bibliothek-cli.ts): a chokidar   *)
(* watcher whose 'add' handler reads metadata.json, copies the declared    *)
(* downloads into permanent storage, upserts project / version group /     *)
(* version in MongoDB, inserts a build and cleans the upload folder.       *)
(*                                                                         *)
(* Every handler invocation is an async function on one event loop: the    *)
(* code between two awaits runs without interleaving of other handlers;    *)
(* other handlers may run at every await.  The uploader is another         *)
(* process: its file operations may happen at any moment.                  *)
(***************************************************************************)
EXTENDS Integers, Sequences, FiniteSets, TLC

\* Number of 'add' events for metadata.json the model delivers (one async
\* handler invocation each).
MaxIngestions == 2

Handlers == 1..MaxIngestions

(***************************************************************************)
(* Strings that the code takes apart are sequences of tokens; "." is the   *)
(* separator of version strings.                                           *)
(***************************************************************************)
Dot == "."

V1_19_4 == <<"1", Dot, "19", Dot, "4">>
V1_19_3 == <<"1", Dot, "19", Dot, "3">>
V1 == <<"1">>

\* The upload tree: path.dirname(filepath) relative to uploadFolder.
uploadFolder == <<>>
SubFolder == <<"a">>
NestedFolder == <<"a", "n">>

\* Folders a metadata.json is dropped into.
StagingFolders == {uploadFolder, SubFolder}
\* What the upload tree holds when the watcher starts, and what the uploader
\* adds while it runs.
InitialFiles ==
    {<<uploadFolder, "x.jar">>, <<SubFolder, "y.jar">>, <<NestedFolder, "x.jar">>}
UploadableFiles == {<<SubFolder, "x.jar">>}

\* interface Metadata: the descriptors the uploader may write.  downloads is
\* the JSON object as written: its members in the order listed, each key a
\* string given by its characters.  The first descriptor writes the member
\* "server" twice.
PaperBuild ==
    [project |-> "paper", repo |-> "Paper", version |-> V1_19_4, number |-> 50,
     downloads |-> << [key |-> <<"s", "e", "r", "v", "e", "r">>, name |-> "z.jar"],
                      [key |-> <<"s", "e", "r", "v", "e", "r">>, name |-> "x.jar"] >>]

Descriptors ==
    { PaperBuild,
      [project |-> "paper", repo |-> "Paper", version |-> V1_19_3, number |-> 51,
       downloads |-> << [key |-> <<"b">>, name |-> "x.jar"],
                        [key |-> <<"1">>, name |-> "y.jar"] >>],
      [project |-> "velocity", repo |-> "Velocity", version |-> V1, number |-> 50,
       downloads |-> << [key |-> <<"s", "e", "r", "v", "e", "r">>, name |-> "x.jar"],
                        [key |-> <<"a", "p", "i">>, name |-> "y.jar"] >>] }

\* The descriptors written into each folder.
DescriptorsOf(d) == IF d = uploadFolder THEN {PaperBuild} ELSE Descriptors

NoMetadata == [project |-> "none"]
NoDoc == [id |-> "none"]
buildChannel == "DEFAULT"

VARIABLES
    files,          \* regular files of the upload tree other than metadata.json: <<folder, name>>
    meta,           \* content of <folder>/metadata.json
    storage,        \* files under storagePath: [project, version, number, name]
    projects,       \* collection 'projects'
    version_groups, \* collection 'version_groups'
    versions,       \* collection 'versions'
    builds,         \* collection 'builds'
    clientOpen,     \* the shared MongoClient is connected
    pc,             \* where each handler invocation stands
    folder,         \* its folder argument
    metadata,       \* its parsed metadata
    idx,            \* position of its copy loop in the enumeration of downloads
    project,        \* its local project
    versionGroup,   \* its local versionGroup
    version,        \* its local version
    log             \* what it has done so far, in order (history)

vars == <<files, meta, storage, projects, version_groups, versions, builds,
          clientOpen, pc, folder, metadata, idx, project, versionGroup, version, log>>

fsVars == <<files, meta>>
storeVars == <<projects, version_groups, versions, builds>>
localVars == <<folder, metadata, idx, project, versionGroup, version>>

Absent == [kind |-> "absent"]
Empty == [kind |-> "empty"]
Partial == [kind |-> "partial"]
Full(d) == [kind |-> "full", d |-> d]

Init ==
    /\ files = InitialFiles
    /\ meta = [f \in StagingFolders |-> Absent]
    /\ storage = {}
    /\ projects = {}
    /\ version_groups = {}
    /\ versions = {}
    /\ builds = {}
    /\ clientOpen = FALSE
    /\ pc = [i \in Handlers |-> "idle"]
    /\ folder = [i \in Handlers |-> uploadFolder]
    /\ metadata = [i \in Handlers |-> NoMetadata]
    /\ idx = [i \in Handlers |-> 0]
    /\ project = [i \in Handlers |-> NoDoc]
    /\ versionGroup = [i \in Handlers |-> NoDoc]
    /\ version = [i \in Handlers |-> NoDoc]
    /\ log = [i \in Handlers |-> <<>>]

(***************************************************************************)
(* Pure helpers                                                            *)
(***************************************************************************)
Min(a, b) == IF a < b THEN a ELSE b

\* String.prototype.split('.'): the components between the separators.
RECURSIVE Split(_)
Split(s) ==
    IF s = <<>> THEN << <<>> >>
    ELSE LET rest == Split(Tail(s))
         IN  IF Head(s) = Dot THEN << <<>> >> \o rest
             ELSE << <<Head(s)>> \o Head(rest) >> \o Tail(rest)

\* Array.prototype.slice(0, n)
Slice(parts, n) == SubSeq(parts, 1, Min(n, Len(parts)))

\* Array.prototype.join('.')
RECURSIVE Join(_)
Join(parts) ==
    IF parts = <<>> THEN <<>>
    ELSE IF Len(parts) = 1 THEN parts[1]
    ELSE parts[1] \o <<Dot>> \o Join(Tail(parts))

\* A group key made of the first component alone.
majorVersionFirstComponent(v) == Join(Slice(Split(v), 1))

\* metadata.version.split('.').slice(0, 2).join('.')
majorVersion(v) == Join(Slice(Split(v), 2))

\* JSON.parse of an object: the members are defined one after the other; a
\* name that comes again keeps its place and takes the later value.
RECURSIVE ObjectOf(_, _)
ObjectOf(members, n) ==
    IF n = 0 THEN <<>>
    ELSE LET o == ObjectOf(members, n - 1)
             m == members[n]
         IN  IF \E j \in 1..Len(o) : o[j].key = m.key
             THEN [j \in 1..Len(o) |-> IF o[j].key = m.key THEN m ELSE o[j]]
             ELSE Append(o, m)

\* Line 78: metadata = JSON.parse(fileContents)
JSONParse(d) == [d EXCEPT !.downloads = ObjectOf(@, Len(@))]

\* The value of a decimal digit, -1 for any other character.
DigitOf(c) ==
    CASE c = "0" -> 0 [] c = "1" -> 1 [] c = "2" -> 2 [] c = "3" -> 3
      [] c = "4" -> 4 [] c = "5" -> 5 [] c = "6" -> 6 [] c = "7" -> 7
      [] c = "8" -> 8 [] c = "9" -> 9 [] OTHER -> -1

\* Numbers as their decimal digits, without leading zeros: a < b.
IndexLess(a, b) ==
    \/ Len(a) < Len(b)
    \/ /\ Len(a) = Len(b)
       /\ \E n \in 1..Len(a) : /\ a[n] < b[n]
                                /\ \A j \in 1..(n - 1) : a[j] = b[j]

\* The greatest array index, 2^32 - 2.
MaxArrayIndex == <<4, 2, 9, 4, 9, 6, 7, 2, 9, 4>>

\* A property key is an array index when it is the canonical decimal numeral
\* of an integer from 0 to 2^32 - 2.
IsArrayIndex(k) ==
    /\ Len(k) > 0
    /\ \A n \in 1..Len(k) : DigitOf(k[n]) >= 0
    /\ Len(k) > 1 => k[1] # "0"
    /\ LET digits == [n \in 1..Len(k) |-> DigitOf(k[n])]
       IN  digits = MaxArrayIndex \/ IndexLess(digits, MaxArrayIndex)

\* The array index a property key denotes, as its decimal digits (an index
\* may exceed the integers of the checker); <<>> when the key is not one.
ArrayIndex(k) ==
    IF IsArrayIndex(k) THEN [n \in 1..Len(k) |-> DigitOf(k[n])] ELSE <<>>

\* for (const download in metadata.downloads): the own properties of the
\* parsed object in enumeration order, array-index keys ascending first, then
\* the other keys in the order they were created (the order JSON.parse met
\* them first).
ForIn(downloads) ==
    SortSeq(SelectSeq(downloads, LAMBDA e : IsArrayIndex(e.key)),
            LAMBDA a, b : IndexLess(ArrayIndex(a.key), ArrayIndex(b.key)))
    \o SelectSeq(downloads, LAMBDA e : ~IsArrayIndex(e.key))

\* path.join(storagePath, project, version, number.toString(), name)
destPath(m, name) ==
    [project |-> m.project, version |-> m.version, number |-> m.number, name |-> name]

\* d is folder f or lies below it.
IsUnder(d, f) == Len(d) >= Len(f) /\ SubSeq(d, 1, Len(f)) = f

\* A cleanup whose branch for the upload root deletes nothing.
RemovedExceptAtRoot(f, d) == f # uploadFolder /\ IsUnder(d, f)

\* A cleanup that never descends into subfolders.
RemovedOnlyDirectly(f, d) == d = f

\* Lines 104-110: what is deleted from the upload tree.
Removed(f, d) ==
    IF f = uploadFolder THEN d = f ELSE IsUnder(d, f)

\* The folder whose metadata.json describes the files of folder d.
StagingOf(d) == IF IsUnder(d, SubFolder) THEN SubFolder ELSE uploadFolder

Range(s) == {s[k] : k \in 1..Len(s)}

(***************************************************************************)
(* The document store                                                      *)
(***************************************************************************)
Matching(coll, filter) ==
    {d \in coll : \A f \in DOMAIN filter : d[f] = filter[f]}

\* A fresh _id: the documents of a collection never share one.
ObjectId(coll, doc) ==
    [of |-> doc, n |-> Cardinality({d \in coll : d.id.of = doc}) + 1]

\* collection.findOneAndUpdate(filter, {$setOnInsert: doc}, mongoOptions).
\* The store carries the command out in two steps: it looks for a document
\* that matches and, with upsert, inserts doc when it found none.  The code
\* creates no unique index, so nothing orders the two steps of one command
\* against those of another: inserts tells that the store had found nothing
\* when it looked.  With returnDocument 'after' the command returns the
\* inserted document, or else one of the documents that match.
FindOneAndUpdate(coll, filter, doc, inserts) ==
    LET made == doc @@ [id |-> ObjectId(coll, doc)]
    IN  IF inserts
        THEN [docs |-> coll \cup {made}, returned |-> {made}]
        ELSE [docs |-> coll, returned |-> Matching(coll, filter)]

\* An insert that takes (project, version, number) for a key.
InsertOneUnlessNumbered(coll, doc) ==
    IF \E d \in coll : /\ d.project = doc.project
                        /\ d.version = doc.version
                        /\ d.number = doc.number
    THEN coll
    ELSE coll \cup {doc @@ [id |-> ObjectId(coll, doc)]}

\* collection.insertOne(doc)
InsertOne(coll, doc) == coll \cup {doc @@ [id |-> ObjectId(coll, doc)]}

(***************************************************************************)
(* The uploader (another process)                                          *)
(***************************************************************************)
\* An artifact is uploaded; the uploader writes a folder's artifacts before it
\* creates the folder's metadata.json.
Upload(f) ==
    /\ f \notin files
    /\ meta[StagingOf(f[1])] = Absent
    /\ files' = files \cup {f}
    /\ UNCHANGED <<meta, storage, storeVars, clientOpen, pc, localVars, log>>

\* metadata.json is written in part ...
WriteMeta(d) ==
    /\ meta[d] = Empty
    /\ meta' = [meta EXCEPT ![d] = Partial]
    /\ UNCHANGED <<files, storage, storeVars, clientOpen, pc, localVars, log>>

\* ... and completed.
FinishMeta(d, m) ==
    /\ meta[d] = Partial
    /\ m \in DescriptorsOf(d)
    /\ meta' = [meta EXCEPT ![d] = Full(m)]
    /\ UNCHANGED <<files, storage, storeVars, clientOpen, pc, localVars, log>>

(***************************************************************************)
(* watcher.on('add') for metadata.json, handleMetadata and insert          *)
(***************************************************************************)
Goto(i, label) == pc' = [pc EXCEPT ![i] = label]
\* An entry of the history: a stage of the handler and how it ended.
Ev(stage, result) == [stage |-> stage, result |-> result, name |-> ""]
CopyEv(result, name) == [stage |-> "copy", result |-> result, name |-> name]
Logged(i, ev) == log' = [log EXCEPT ![i] = Append(@, ev)]

\* No other handler is inside its synchronous copy loop.
MayRun(i) == \A j \in Handlers \ {i} : pc[j] # "copy"

\* A watcher that stops delivering events once a handler has logged an error.
AddEventUntilFailure(i, d) ==
    /\ \A j \in Handlers : \A k \in 1..Len(log[j]) : log[j][k].result = "ok"
    /\ pc[i] = "idle"
    /\ \A j \in Handlers : j < i => pc[j] # "idle"
    /\ MayRun(i)
    /\ meta[d] = Absent
    /\ meta' = [meta EXCEPT ![d] = Empty]
    /\ folder' = [folder EXCEPT ![i] = d]
    /\ Goto(i, "sleep")
    /\ UNCHANGED <<files, storage, storeVars, clientOpen, metadata, idx,
                   project, versionGroup, version, log>>

\* The uploader creates <d>/metadata.json and chokidar delivers its 'add'
\* event (lines 58-71): the handler logs and awaits the 1 second timer, while
\* the uploader goes on writing the file.
AddEvent(i, d) ==
    /\ pc[i] = "idle"
    /\ \A j \in Handlers : j < i => pc[j] # "idle"
    /\ MayRun(i)
    /\ meta[d] = Absent
    /\ meta' = [meta EXCEPT ![d] = Empty]
    /\ folder' = [folder EXCEPT ![i] = d]
    /\ Goto(i, "sleep")
    /\ UNCHANGED <<files, storage, storeVars, clientOpen, metadata, idx,
                   project, versionGroup, version, log>>

\* Where insert stands once the loop passed position k of the enumeration.
AfterCopy(m, k) == IF k >= Len(ForIn(m.downloads)) THEN "connect" ELSE "copy"

\* A reader that goes round its loop again on an empty file.
ReadRetriesOnEmpty(i) ==
    /\ pc[i] = "sleep"
    /\ MayRun(i)
    /\ LET c == meta[folder[i]]
       IN  IF c.kind = "full"
           THEN /\ metadata' = [metadata EXCEPT ![i] = JSONParse(c.d)]
                /\ idx' = [idx EXCEPT ![i] = 1]
                /\ Goto(i, AfterCopy(JSONParse(c.d), 0))
                /\ Logged(i, Ev("read", "ok"))
           ELSE /\ Goto(i, IF c.kind = "empty" THEN "sleep" ELSE "done")
                /\ Logged(i, Ev("read", IF c.kind = "empty" THEN "empty" ELSE "error"))
                /\ UNCHANGED <<metadata, idx>>
    /\ UNCHANGED <<fsVars, storage, storeVars, clientOpen, folder,
                   project, versionGroup, version>>

\* A reader that goes round its loop again when the parse fails.
ReadRetriesOnError(i) ==
    /\ pc[i] = "sleep"
    /\ MayRun(i)
    /\ LET c == meta[folder[i]]
       IN  IF c.kind = "full"
           THEN /\ metadata' = [metadata EXCEPT ![i] = JSONParse(c.d)]
                /\ idx' = [idx EXCEPT ![i] = 1]
                /\ Goto(i, AfterCopy(JSONParse(c.d), 0))
                /\ Logged(i, Ev("read", "ok"))
           ELSE /\ Goto(i, IF c.kind = "empty" THEN "done" ELSE "sleep")
                /\ Logged(i, Ev("read", IF c.kind = "empty" THEN "empty" ELSE "error"))
                /\ UNCHANGED <<metadata, idx>>
    /\ UNCHANGED <<fsVars, storage, storeVars, clientOpen, folder,
                   project, versionGroup, version>>

\* Lines 72-85 up to the copy loop of insert: one read and one parse.
Read(i) ==
    /\ pc[i] = "sleep"
    /\ MayRun(i)
    /\ LET c == meta[folder[i]]
       IN  IF c.kind = "full"
           THEN /\ metadata' = [metadata EXCEPT ![i] = JSONParse(c.d)]
                /\ idx' = [idx EXCEPT ![i] = 1]
                /\ Goto(i, AfterCopy(JSONParse(c.d), 0))
                /\ Logged(i, Ev("read", "ok"))
           ELSE /\ Goto(i, "done")
                /\ Logged(i, Ev("read", IF c.kind = "empty" THEN "empty" ELSE "error"))
                /\ UNCHANGED <<metadata, idx>>
    /\ UNCHANGED <<fsVars, storage, storeVars, clientOpen, folder,
                   project, versionGroup, version>>

\* A copy loop that logs a failing copy and goes on with the next download.
CopySkipsMissing(i) ==
    /\ pc[i] = "copy"
    /\ LET m == metadata[i]
           name == ForIn(m.downloads)[idx[i]].name
           here == <<folder[i], name>> \in files
       IN  /\ storage' = IF here THEN storage \cup {destPath(m, name)} ELSE storage
           /\ idx' = [idx EXCEPT ![i] = @ + 1]
           /\ Goto(i, AfterCopy(m, idx[i]))
           /\ Logged(i, CopyEv(IF here THEN "ok" ELSE "error", name))
    /\ UNCHANGED <<fsVars, storeVars, clientOpen, folder, metadata,
                   project, versionGroup, version>>

\* A copy loop whose catch logs the failing copy and falls through to the
\* store section.
CopyFailureGoesOn(i) ==
    /\ pc[i] = "copy"
    /\ LET m == metadata[i]
           name == ForIn(m.downloads)[idx[i]].name
       IN  IF <<folder[i], name>> \in files
           THEN /\ storage' = storage \cup {destPath(m, name)}
                /\ idx' = [idx EXCEPT ![i] = @ + 1]
                /\ Goto(i, AfterCopy(m, idx[i]))
                /\ Logged(i, CopyEv("ok", name))
           ELSE /\ Goto(i, "connect")
                /\ Logged(i, CopyEv("error", name))
                /\ UNCHANGED <<storage, idx>>
    /\ UNCHANGED <<fsVars, storeVars, clientOpen, folder, metadata,
                   project, versionGroup, version>>

\* Lines 122-132: one turn of the copy loop.  A failing copyFileSync is
\* logged and insert returns; handleMetadata goes on with its cleanup.
Copy(i) ==
    /\ pc[i] = "copy"
    /\ LET m == metadata[i]
           name == ForIn(m.downloads)[idx[i]].name
       IN  IF <<folder[i], name>> \in files
           THEN /\ storage' = storage \cup {destPath(m, name)}
                /\ idx' = [idx EXCEPT ![i] = @ + 1]
                /\ Goto(i, AfterCopy(m, idx[i]))
                /\ Logged(i, CopyEv("ok", name))
           ELSE /\ Goto(i, "cleanup")
                /\ Logged(i, CopyEv("error", name))
                /\ UNCHANGED <<storage, idx>>
    /\ UNCHANGED <<fsVars, storeVars, clientOpen, folder, metadata,
                   project, versionGroup, version>>

\* What the store answers to a command: it carries it out, it returns no
\* document, or the command throws (network failure, server error, timeout,
\* or the shared client was closed meanwhile and does not reconnect by
\* itself).
\* "lost": the store carried the command out and the reply did not arrive, so
\* that the command throws all the same.
Answers == {"ok", "null", "error", "lost"}
WriteAnswers == {"ok", "error", "lost"}
\* connect() and close() succeed or throw.
ClientAnswers == {"ok", "error"}
\* What the catch of line 194 logs for an answer.
Thrown(r) == IF r = "lost" THEN "error" ELSE r

\* A command that was carried out went over a connected client.
Issued(r) == clientOpen' = (IF r = "error" THEN clientOpen ELSE TRUE)

\* A catch that returns from insert without the finally block.
CaughtSkipsClose(i, step, r) ==
    /\ Goto(i, "cleanup")
    /\ Logged(i, Ev(step, Thrown(r)))

\* The catch of line 194: whatever was thrown is logged, then finally.
Caught(i, step, r) ==
    /\ Goto(i, "close")
    /\ Logged(i, Ev(step, Thrown(r)))

\* Line 135: await client.connect()
Connect(i, r) ==
    /\ pc[i] = "connect"
    /\ MayRun(i)
    /\ Issued(r)
    /\ IF r = "ok"
       THEN Goto(i, "project") /\ Logged(i, Ev("connect", "ok"))
       ELSE Caught(i, "connect", r)
    /\ UNCHANGED <<fsVars, storage, storeVars, localVars>>

\* Where a handler stands while one of its findOneAndUpdate commands is in
\* the store, after the store looked and found no document.
Upserting == {"projectUpsert", "versionGroupUpsert", "versionUpsert"}

\* The store looks for the document of a findOneAndUpdate and finds none:
\* the command goes on to its insert.
Looks(i, stage, upsert, coll, filter) ==
    /\ pc[i] = stage
    /\ MayRun(i)
    /\ Matching(coll, filter) = {}
    /\ Goto(i, upsert)
    /\ UNCHANGED <<fsVars, storage, storeVars, clientOpen, localVars, log>>

projectFilter(i) == [name |-> metadata[i].project]
versionGroupFilter(i) ==
    [project |-> project[i].id, name |-> majorVersion(metadata[i].version)]
versionFilter(i) == [project |-> project[i].id, name |-> metadata[i].version]

\* Lines 137-141, 148-152, 158-169: the store has looked and found nothing.
LookForProject(i) ==
    Looks(i, "project", "projectUpsert", projects, projectFilter(i))
LookForVersionGroup(i) ==
    Looks(i, "versionGroup", "versionGroupUpsert", version_groups,
          versionGroupFilter(i))
LookForVersion(i) ==
    Looks(i, "version", "versionUpsert", versions, versionFilter(i))

\* Lines 137-145
FindProject(i, r) ==
    /\ \/ pc[i] = "project" /\ Matching(projects, projectFilter(i)) # {}
       \/ pc[i] = "projectUpsert"
    /\ MayRun(i)
    /\ Issued(r)
    /\ LET m == metadata[i]
           res == FindOneAndUpdate(projects, projectFilter(i),
                                   [name |-> m.project, friendlyName |-> m.repo],
                                   pc[i] = "projectUpsert")
       IN  IF r = "ok"
           THEN /\ projects' = res.docs
                /\ \E d \in res.returned : project' = [project EXCEPT ![i] = d]
                /\ Goto(i, "versionGroup")
                /\ Logged(i, Ev("project", "ok"))
           ELSE /\ Caught(i, "project", r)
                /\ projects' = IF r = "lost" THEN res.docs ELSE projects
                /\ UNCHANGED project
    /\ UNCHANGED <<fsVars, storage, version_groups, versions, builds,
                   folder, metadata, idx, versionGroup, version>>

\* A version group step that goes on when the store returned no document.
FindVersionGroupIgnoresNull(i, r) ==
    /\ \/ pc[i] = "versionGroup"
          /\ Matching(version_groups, versionGroupFilter(i)) # {}
       \/ pc[i] = "versionGroupUpsert"
    /\ MayRun(i)
    /\ Issued(r)
    /\ LET res == FindOneAndUpdate(version_groups, versionGroupFilter(i),
                                   versionGroupFilter(i),
                                   pc[i] = "versionGroupUpsert")
       IN  CASE r = "ok" ->
                /\ version_groups' = res.docs
                /\ \E d \in res.returned :
                      versionGroup' = [versionGroup EXCEPT ![i] = d]
                /\ Goto(i, "version")
                /\ Logged(i, Ev("versionGroup", "ok"))
             [] r = "null" ->
                /\ Goto(i, "version")
                /\ Logged(i, Ev("versionGroup", "null"))
                /\ UNCHANGED <<version_groups, versionGroup>>
             [] OTHER ->
                /\ Caught(i, "versionGroup", r)
                /\ version_groups' = IF r = "lost" THEN res.docs ELSE version_groups
                /\ UNCHANGED versionGroup
    /\ UNCHANGED <<fsVars, storage, projects, versions, builds,
                   folder, metadata, idx, project, version>>

\* Lines 147-156
FindVersionGroup(i, r) ==
    /\ \/ pc[i] = "versionGroup"
          /\ Matching(version_groups, versionGroupFilter(i)) # {}
       \/ pc[i] = "versionGroupUpsert"
    /\ MayRun(i)
    /\ Issued(r)
    /\ LET res == FindOneAndUpdate(version_groups, versionGroupFilter(i),
                                   versionGroupFilter(i),
                                   pc[i] = "versionGroupUpsert")
       IN  IF r = "ok"
           THEN /\ version_groups' = res.docs
                /\ \E d \in res.returned :
                      versionGroup' = [versionGroup EXCEPT ![i] = d]
                /\ Goto(i, "version")
                /\ Logged(i, Ev("versionGroup", "ok"))
           ELSE /\ Caught(i, "versionGroup", r)
                /\ version_groups' = IF r = "lost" THEN res.docs ELSE version_groups
                /\ UNCHANGED versionGroup
    /\ UNCHANGED <<fsVars, storage, projects, versions, builds,
                   folder, metadata, idx, project, version>>

\* A version step that records the project where the group belongs.
FindVersionGroupedByProject(i, r) ==
    /\ \/ pc[i] = "version" /\ Matching(versions, versionFilter(i)) # {}
       \/ pc[i] = "versionUpsert"
    /\ MayRun(i)
    /\ Issued(r)
    /\ LET m == metadata[i]
           res == FindOneAndUpdate(versions, versionFilter(i),
                      [project |-> project[i].id, group |-> project[i].id,
                       name |-> m.version],
                      pc[i] = "versionUpsert")
       IN  IF r = "ok"
           THEN /\ versions' = res.docs
                /\ \E d \in res.returned : version' = [version EXCEPT ![i] = d]
                /\ Goto(i, "build")
                /\ Logged(i, Ev("version", "ok"))
           ELSE /\ Caught(i, "version", r)
                /\ versions' = IF r = "lost" THEN res.docs ELSE versions
                /\ UNCHANGED version
    /\ UNCHANGED <<fsVars, storage, projects, version_groups, builds,
                   folder, metadata, idx, project, versionGroup>>

\* Lines 158-173
FindVersion(i, r) ==
    /\ \/ pc[i] = "version" /\ Matching(versions, versionFilter(i)) # {}
       \/ pc[i] = "versionUpsert"
    /\ MayRun(i)
    /\ Issued(r)
    /\ LET m == metadata[i]
           res == FindOneAndUpdate(versions, versionFilter(i),
                      [project |-> project[i].id, group |-> versionGroup[i].id,
                       name |-> m.version],
                      pc[i] = "versionUpsert")
       IN  IF r = "ok"
           THEN /\ versions' = res.docs
                /\ \E d \in res.returned : version' = [version EXCEPT ![i] = d]
                /\ Goto(i, "build")
                /\ Logged(i, Ev("version", "ok"))
           ELSE /\ Caught(i, "version", r)
                /\ versions' = IF r = "lost" THEN res.docs ELSE versions
                /\ UNCHANGED version
    /\ UNCHANGED <<fsVars, storage, projects, version_groups, builds,
                   folder, metadata, idx, project, versionGroup>>

\* A build that records the version group where the version belongs.
InsertBuildRefersToGroup(i, r) ==
    /\ pc[i] = "build"
    /\ MayRun(i)
    /\ Issued(r)
    /\ LET m == metadata[i]
           inserted == InsertOne(builds,
                      [project |-> project[i].id, version |-> versionGroup[i].id,
                       number |-> m.number, downloads |-> m.downloads,
                       promoted |-> FALSE, channel |-> buildChannel])
       IN  IF r = "ok"
           THEN /\ builds' = inserted
                /\ Goto(i, "close")
                /\ Logged(i, Ev("build", "ok"))
           ELSE /\ Caught(i, "build", r)
                /\ builds' = IF r = "lost" THEN inserted ELSE builds
    /\ UNCHANGED <<fsVars, storage, projects, version_groups, versions, localVars>>

\* Lines 175-193
InsertBuild(i, r) ==
    /\ pc[i] = "build"
    /\ MayRun(i)
    /\ Issued(r)
    /\ LET m == metadata[i]
           inserted == InsertOne(builds,
                      [project |-> project[i].id, version |-> version[i].id,
                       number |-> m.number, downloads |-> m.downloads,
                       promoted |-> FALSE, channel |-> buildChannel])
       IN  IF r = "ok"
           THEN /\ builds' = inserted
                /\ Goto(i, "close")
                /\ Logged(i, Ev("build", "ok"))
           ELSE /\ Caught(i, "build", r)
                /\ builds' = IF r = "lost" THEN inserted ELSE builds
    /\ UNCHANGED <<fsVars, storage, projects, version_groups, versions, localVars>>

\* Lines 196-198: finally, await client.close(); insert returns.  When
\* close() throws, the rejection leaves insert and handleMetadata (no
\* cleanup) and is caught by the handler at lines 82-85, which logs "Error
\* while reading metadata file" and ends; the client is closed or not.
Close(i, r) ==
    /\ pc[i] = "close"
    /\ MayRun(i)
    /\ IF r = "ok"
       THEN /\ clientOpen' = FALSE
            /\ Goto(i, "cleanup")
            /\ Logged(i, Ev("close", "ok"))
       ELSE /\ clientOpen' \in {clientOpen, FALSE}
            /\ Goto(i, "done")
            /\ log' = [log EXCEPT ![i] =
                          @ \o <<Ev("close", "error"), Ev("handler", "error")>>]
    /\ UNCHANGED <<fsVars, storage, storeVars, localVars>>

\* Lines 102-110: the cleanup of handleMetadata, after insert returned.
Cleanup(i) ==
    /\ pc[i] = "cleanup"
    /\ MayRun(i)
    /\ files' = {f \in files : ~Removed(folder[i], f[1])}
    /\ meta' = [d \in StagingFolders |->
                    IF Removed(folder[i], d) THEN Absent ELSE meta[d]]
    /\ Goto(i, "done")
    /\ Logged(i, Ev("cleanup", "ok"))
    /\ UNCHANGED <<storage, storeVars, clientOpen, localVars>>

Next ==
    \/ \E f \in UploadableFiles : Upload(f)
    \/ \E d \in StagingFolders : WriteMeta(d)
    \/ \E d \in StagingFolders, m \in Descriptors : FinishMeta(d, m)
    \/ \E i \in Handlers, d \in StagingFolders : AddEvent(i, d)
    \/ \E i \in Handlers : Read(i)
    \/ \E i \in Handlers : Copy(i)
    \/ \E i \in Handlers, r \in ClientAnswers : Connect(i, r)
    \/ \E i \in Handlers : LookForProject(i)
    \/ \E i \in Handlers, r \in Answers : FindProject(i, r)
    \/ \E i \in Handlers : LookForVersionGroup(i)
    \/ \E i \in Handlers, r \in Answers : FindVersionGroup(i, r)
    \/ \E i \in Handlers : LookForVersion(i)
    \/ \E i \in Handlers, r \in Answers : FindVersion(i, r)
    \/ \E i \in Handlers, r \in WriteAnswers : InsertBuild(i, r)
    \/ \E i \in Handlers, r \in ClientAnswers : Close(i, r)
    \/ \E i \in Handlers : Cleanup(i)

Spec == Init /\ [][Next]_vars

(***************************************************************************)
(* Reading the history of an ingestion                                     *)
(***************************************************************************)
Did(i, stage) == Ev(stage, "ok") \in Range(log[i])
Tried(i, stage) == \E k \in 1..Len(log[i]) : log[i][k].stage = stage
Inserted(i) == Did(i, "build")
CopiedNames(i) ==
    {log[i][k].name : k \in {n \in 1..Len(log[i]) :
                              log[i][n].stage = "copy" /\ log[i][n].result = "ok"}}
CopyFailed(i) == \E k \in 1..Len(log[i]) :
                    log[i][k].stage = "copy" /\ log[i][k].result = "error"

StageRank(stage) ==
    CASE stage = "read" -> 1
      [] stage = "copy" -> 2
      [] stage = "connect" -> 3
      [] stage = "project" -> 4
      [] stage = "versionGroup" -> 5
      [] stage = "version" -> 6
      [] stage = "build" -> 7
      [] stage = "close" -> 8
      [] stage = "cleanup" -> 9
      [] stage = "handler" -> 10

(***************************************************************************)
(* C1: the cleaner runs only after the build was inserted; an ingestion    *)
(* whose copy, find-or-create, connect or insert failed leaves the staging *)
(* folder alone.  The code cleans up whenever insert returns.              *)
(***************************************************************************)
C1_CleanupOnlyAfterInsertedBuild ==
    \A i \in Handlers : Did(i, "cleanup") => Inserted(i)

(***************************************************************************)
(* C2: the stages of one ingestion run in the order reader, resolver,      *)
(* relocator, recorder, cleaner: no file is copied before project, version *)
(* group and version are resolved.  The code copies every download first   *)
(* (lines 122-132) and connects to the store afterwards (line 135).        *)
(***************************************************************************)
C2_ResolverBeforeRelocator ==
    \A i \in Handlers : \A k \in 1..Len(log[i]) :
        log[i][k].stage = "copy" =>
            \E j \in 1..(k - 1) : log[i][j] = Ev("version", "ok")

(***************************************************************************)
(* C3: the store holds at most one project per name, at most one version   *)
(* group per (project, name) and at most one version per (project, name),  *)
(* however the ingestions interleave.  The code creates no unique index:   *)
(* two findOneAndUpdate commands that both find nothing both insert.       *)
(***************************************************************************)
C3_NoDuplicateKeys ==
    /\ \A p, q \in projects : p.name = q.name => p = q
    /\ \A g, h \in version_groups :
          g.project = h.project /\ g.name = h.name => g = h
    /\ \A v, w \in versions :
          v.project = w.project /\ v.name = w.name => v = w

(***************************************************************************)
(* C4: every ingestion whose insert was carried out added one build of its *)
(* own, also when a build of the same project, version and number was      *)
(* there already: a descriptor has at least as many builds as ingestions   *)
(* whose insertOne returned, and no more than ingestions that issued an    *)
(* insertOne (one that threw may have been carried out by the store all    *)
(* the same).  An ingestion whose descriptor is identical to one that has  *)
(* inserted its build before adds no project, no version group and no      *)
(* version, and its insertOne adds one more build of that project, version *)
(* and number.  (In a store that racing upserts left with two projects of  *)
(* one name, see C3, the later ingestion may be handed the other project;  *)
(* the statement is about the one that is handed the project recorded by   *)
(* the earlier ingestion.)                                                 *)
(***************************************************************************)
BuildsOf(m) ==
    {b \in builds : /\ b.project.of.name = m.project
                    /\ b.version.of.name = m.version
                    /\ b.number = m.number}
\* The descriptors as the handler holds them.
ParsedDescriptors == {JSONParse(m) : m \in Descriptors}
InsertersOf(m) == {i \in Handlers : Inserted(i) /\ metadata[i] = m}
RecordersOf(m) == {i \in Handlers : Tried(i, "build") /\ metadata[i] = m}

EveryIngestionAddsItsBuild ==
    \A m \in ParsedDescriptors :
        /\ Cardinality(BuildsOf(m)) >= Cardinality(InsertersOf(m))
        /\ Cardinality(BuildsOf(m)) <= Cardinality(RecordersOf(m))

\* The store is about to carry out a command of j, whose descriptor is
\* identical to that of i, after i has inserted its build.
ReingestionOf(i, j) ==
    /\ i # j
    /\ Inserted(i)
    /\ metadata[j] = metadata[i]
    /\ \/ pc[j] = "project"
       \/ pc[j] \in {"versionGroup", "version", "build"} /\ project[j] = project[i]

ReingestionAddsOnlyItsBuild ==
    \A i, j \in Handlers :
        ReingestionOf(i, j) /\ pc'[j] # pc[j] =>
            /\ pc'[j] \notin Upserting
            /\ projects' = projects
            /\ version_groups' = version_groups
            /\ versions' = versions
            /\ Inserted(j)' =>
                  Cardinality(BuildsOf(metadata[j]))' =
                      Cardinality(BuildsOf(metadata[j])) + 1

\* C4: the count of builds is right throughout every run, and every step of
\* a re-ingestion finds its document (no upsert goes on to insert) and leaves
\* projects, version groups and versions as they are.
C4_EveryIngestionAddsItsBuild ==
    /\ []EveryIngestionAddsItsBuild
    /\ [][ReingestionAddsOnlyItsBuild]_vars

\* Two ingestions of one descriptor, the second resolved to the documents of
\* the first, have both inserted their build.
C4_Witness ==
    \E i, j \in Handlers :
        /\ i < j
        /\ Inserted(i) /\ Inserted(j)
        /\ metadata[i] = metadata[j]
        /\ project[j] = project[i]
        /\ versionGroup[j] = versionGroup[i]
        /\ version[j] = version[i]
        /\ Cardinality(projects) = 1
        /\ Cardinality(BuildsOf(metadata[i])) = 2

(***************************************************************************)
(* C5: a metadata.json that is not fully written when it is read is read   *)
(* again on the next tick; the ingestion does not end in an error, and the *)
(* descriptor is handed on once the file is complete: no ingestion has     *)
(* ended on a failed parse of a file that is complete by now.  The code    *)
(* reads once and gives up.                                                *)
(***************************************************************************)
C5_IncompleteDescriptorIsReadAgain ==
    \A i \in Handlers :
        ~(/\ pc[i] = "done"
          /\ Ev("read", "error") \in Range(log[i])
          /\ meta[folder[i]].kind = "full")

(***************************************************************************)
(* C6: a download whose file is missing aborts the relocation.             *)
(***************************************************************************)
FailedAt(i, seq) ==
    CHOOSE k \in 1..Len(seq) :
        CopyEv("error", seq[k].name) \in Range(log[i])

\* C6 (as stated): the downloads listed before the missing one are copied,
\* those listed after it are not, and no build is inserted: what was copied
\* is a proper prefix of the downloads as listed.
C6_ListedBeforeAreCopied ==
    \A i \in Handlers :
        CopyFailed(i) =>
            LET listed == metadata[i].downloads
            IN  /\ \E k \in 1..Len(listed) :
                      /\ \A j \in 1..(k - 1) : listed[j].name \in CopiedNames(i)
                      /\ \A j \in k..Len(listed) : listed[j].name \notin CopiedNames(i)
                /\ ~Tried(i, "build")

\* C6 (amended): the downloads the loop enumerates before the missing one
\* (array-index keys in ascending order, then the other keys as listed) are
\* copied and stay in permanent storage, those it enumerates after it are not
\* copied by this ingestion, and no build is inserted for it.
EnumeratedBeforeAreCopied ==
    \A i \in Handlers :
        CopyFailed(i) =>
            LET m == metadata[i]
                enumerated == ForIn(m.downloads)
                k == FailedAt(i, enumerated)
            IN  /\ \A j \in 1..(k - 1) :
                      /\ enumerated[j].name \in CopiedNames(i)
                      /\ [project |-> m.project, version |-> m.version,
                          number |-> m.number, name |-> enumerated[j].name] \in storage
                /\ \A j \in k..Len(enumerated) : enumerated[j].name \notin CopiedNames(i)
                /\ ~Tried(i, "build")
                /\ pc[i] \in {"cleanup", "done"}

\* C6 (amended): holds of every failed copy throughout every run.
C6_EnumeratedBeforeAreCopied == EnumeratedBeforeAreCopied

\* The download listed second was enumerated first and copied; the one listed
\* first was missing.
C6_Witness ==
    \E i \in Handlers :
        /\ CopyFailed(i)
        /\ pc[i] = "done"
        /\ Len(metadata[i].downloads) = 2
        /\ metadata[i].downloads[1].name \notin CopiedNames(i)
        /\ CopiedNames(i) = {metadata[i].downloads[2].name}

(***************************************************************************)
(* C7: an empty metadata.json ends the ingestion with one logged error;    *)
(* the ingestion opens no connection and writes nothing to the store.      *)
(***************************************************************************)
EndedOnEmpty(i) == log[i] = << Ev("read", "empty") >>

C7_EmptyDescriptorAborts ==
    /\ \A i \in Handlers :
          Ev("read", "empty") \in Range(log[i]) => pc[i] = "done" /\ EndedOnEmpty(i)
    /\ (\A i \in Handlers : pc[i] \in {"idle", "sleep"} \/ EndedOnEmpty(i)) =>
          /\ projects = {} /\ version_groups = {} /\ versions = {} /\ builds = {}
          /\ storage = {}
          /\ clientOpen = FALSE

C7_Witness ==
    \A i \in Handlers : pc[i] = "done" /\ EndedOnEmpty(i)

(***************************************************************************)
(* C8: the first ingestion into an empty store that gets as far as its     *)
(* insert leaves one project, one version group, one version and one build *)
(* that refers to that project and that version.                           *)
(***************************************************************************)
C8_FirstIngestionCreatesHierarchy ==
    \A i \in Handlers :
        (Inserted(i) /\ \A j \in Handlers \ {i} : ~Tried(j, "connect")) =>
            /\ Cardinality(projects) = 1
            /\ Cardinality(version_groups) = 1
            /\ Cardinality(versions) = 1
            /\ Cardinality(builds) = 1
            /\ \E p \in projects, g \in version_groups, v \in versions, b \in builds :
                  /\ p.name = metadata[i].project
                  /\ g.project = p.id
                  /\ v.project = p.id /\ v.group = g.id
                  /\ v.name = metadata[i].version
                  /\ b.project = p.id /\ b.version = v.id
                  /\ b.number = metadata[i].number

C8_Witness ==
    \E i \in Handlers :
        /\ Inserted(i)
        /\ \A j \in Handlers \ {i} : ~Tried(j, "connect")
        /\ metadata[i].project = "velocity"

(***************************************************************************)
(* C9: two ingestions of one project with versions 1.19.4 and 1.19.3, in   *)
(* either order or interleaved, leave one version group 1.19 and two       *)
(* versions that both refer to it.  Interleaved, both may find no project  *)
(* or no version group and both insert one (see C3).                       *)
(***************************************************************************)
C9_SharedVersionGroup ==
    \A i, j \in Handlers :
        (/\ Did(i, "version") /\ Did(j, "version")
         /\ metadata[i].project = metadata[j].project
         /\ metadata[i].version = V1_19_4
         /\ metadata[j].version = V1_19_3) =>
            \E p \in projects :
                /\ p.name = metadata[i].project
                /\ LET gs == {g \in version_groups : g.project = p.id}
                       vs == {v \in versions : v.project = p.id}
                   IN  /\ Cardinality(gs) = 1
                       /\ \A g \in gs : g.name = <<"1", Dot, "19">>
                       /\ {v.name : v \in vs} = {V1_19_4, V1_19_3}
                       /\ Cardinality(vs) = 2
                       /\ \A v \in vs : \A g \in gs : v.group = g.id

(***************************************************************************)
(* C10: when the cleanup of an ingestion that inserted its build is over,  *)
(* every download is at <project>/<version>/<number>/<name> in permanent   *)
(* storage, a build with that downloads map exists, and the staging folder *)
(* is gone (the upload root holds no file of its own).                     *)
(***************************************************************************)
C10_SuccessfulIngestion ==
    [][\A i \in Handlers :
          (pc[i] = "cleanup" /\ pc'[i] = "done" /\ Inserted(i)) =>
              LET m == metadata[i]
              IN  /\ \A e \in Range(m.downloads) :
                        [project |-> m.project, version |-> m.version,
                         number |-> m.number, name |-> e.name] \in storage'
                  /\ \E b \in builds' : /\ b.downloads = m.downloads
                                        /\ b.number = m.number
                                        /\ b.project = project[i].id
                                        /\ b.version = version[i].id
                  /\ meta'[folder[i]] = Absent
                  /\ \A f \in files' :
                        IF folder[i] = uploadFolder
                        THEN f[1] # uploadFolder
                        ELSE ~IsUnder(f[1], folder[i])]_vars

C10_Witness ==
    \E i \in Handlers :
        /\ pc[i] = "done"
        /\ Inserted(i)
        /\ Did(i, "cleanup")
        /\ folder[i] = uploadFolder
        /\ <<SubFolder, "x.jar">> \in files

(***************************************************************************)
(* C11: a failed ingestion (empty or malformed descriptor, missing         *)
(* artifact, find-or-create returning nothing, connect or insert error)    *)
(* never stops the dispatcher: the watcher still takes the add event of a  *)
(* new descriptor, every step of another ingestion can still be carried    *)
(* out with a store that answers, and another ingestion that inserted has  *)
(* its build in the store.                                                 *)
(***************************************************************************)
Failed(i) == \E k \in 1..Len(log[i]) : log[i][k].result # "ok"
NextIdle(j) == pc[j] = "idle" /\ \A k \in Handlers : k < j => pc[k] # "idle"
DispatcherGoesOn ==
    \A j \in Handlers :
        (\E i \in Handlers : i < j /\ pc[i] = "done" /\ Failed(i)) =>
            /\ MayRun(j) =>
                  /\ \A d \in StagingFolders :
                        (NextIdle(j) /\ meta[d] = Absent) => ENABLED AddEvent(j, d)
                  /\ pc[j] = "sleep" => ENABLED Read(j)
                  /\ pc[j] = "copy" => ENABLED Copy(j)
                  /\ pc[j] = "connect" => ENABLED Connect(j, "ok")
                  /\ pc[j] = "project" =>
                        ENABLED (LookForProject(j) \/ FindProject(j, "ok"))
                  /\ pc[j] = "projectUpsert" => ENABLED FindProject(j, "ok")
                  /\ pc[j] = "versionGroup" =>
                        ENABLED (LookForVersionGroup(j) \/ FindVersionGroup(j, "ok"))
                  /\ pc[j] = "versionGroupUpsert" =>
                        ENABLED FindVersionGroup(j, "ok")
                  /\ pc[j] = "version" =>
                        ENABLED (LookForVersion(j) \/ FindVersion(j, "ok"))
                  /\ pc[j] = "versionUpsert" => ENABLED FindVersion(j, "ok")
                  /\ pc[j] = "build" => ENABLED InsertBuild(j, "ok")
            /\ Inserted(j) =>
                  \E b \in builds : /\ b.number = metadata[j].number
                                    /\ b.downloads = metadata[j].downloads
                                    /\ b.project = project[j].id
                                    /\ b.version = version[j].id

C11_FailureNeverStopsDispatcher == DispatcherGoesOn

\* An ingestion failed in the store, its folder was cleaned, and the
\* descriptor added to the same folder afterwards was ingested.
C11_Witness ==
    \E i, j \in Handlers :
        /\ i < j
        /\ Failed(i) /\ ~Inserted(i) /\ pc[i] = "done"
        /\ folder[j] = folder[i]
        /\ Inserted(j) /\ pc[j] = "done"

(***************************************************************************)
(* C12: an ingestion that reached the store section of insert leaves it    *)
(* through client.close(), on success and on every failure (connect error, *)
(* find-or-create returning nothing, insert error); when no ingestion is   *)
(* inside its store section and no close() has thrown, the client is       *)
(* closed.                                                                 *)
(***************************************************************************)
StoreSection ==
    {"project", "versionGroup", "version", "build", "close"} \cup Upserting
C12_ConnectionReleased ==
    /\ \A i \in Handlers :
          (Tried(i, "connect") /\ pc[i] \in {"cleanup", "done"}) =>
              Tried(i, "close")
    /\ (\A i \in Handlers : /\ pc[i] \notin StoreSection
                             /\ Ev("close", "error") \notin Range(log[i])) =>
          ~clientOpen

\* One ingestion inserted its build, another got no document from a
\* find-or-create; both are over.
C12_Witness ==
    \E i, j \in Handlers :
        /\ Inserted(i) /\ pc[i] = "done"
        /\ Ev("version", "null") \in Range(log[j]) /\ pc[j] = "done"
        /\ Did(i, "close") /\ Did(j, "close")
        /\ ~clientOpen

(***************************************************************************)
(* C13: when a find-or-create step returns no document, no later           *)
(* resolution step of that ingestion runs and the ingestion inserts no     *)
(* build, while the documents its earlier steps returned stay in the       *)
(* store.                                                                  *)
(***************************************************************************)
ReturnedNothing(i, stage) == Ev(stage, "null") \in Range(log[i])
NullResolutionStopsIngestion ==
    \A i \in Handlers :
        \A stage \in {"project", "versionGroup", "version"} :
            ReturnedNothing(i, stage) =>
                /\ \A k \in 1..Len(log[i]) :
                      StageRank(log[i][k].stage) \in 4..7 =>
                          StageRank(log[i][k].stage) <= StageRank(stage)
                /\ ~Tried(i, "build")
                /\ Did(i, "project") => project[i] \in projects
                /\ Did(i, "versionGroup") => versionGroup[i] \in version_groups

\* C13: holds of every ingestion throughout every run.
C13_NullResolutionStopsIngestion == NullResolutionStopsIngestion

\* The version group step returned nothing after the project was created by
\* this ingestion; the ingestion is over and the project is still there.
C13_Witness ==
    \E i \in Handlers :
        /\ ReturnedNothing(i, "versionGroup")
        /\ pc[i] = "done"
        /\ project[i] \in projects
        /\ version_groups = {}
        /\ builds = {}

(***************************************************************************)
(* C14: the cleanup of a descriptor dropped in the upload root deletes the *)
(* files directly in the root and nothing else: the files of its           *)
(* subfolders, at any depth, and their metadata.json stay.  The cleanup of *)
(* any other staging folder removes every file in or under that folder and *)
(* nothing outside it.                                                     *)
(***************************************************************************)
C14_CleanupByLocation ==
    [][\A i \in Handlers :
          (pc[i] = "cleanup" /\ pc'[i] = "done") =>
              IF folder[i] = uploadFolder
              THEN /\ files' = {f \in files : f[1] # uploadFolder}
                   /\ meta'[uploadFolder] = Absent
                   /\ \A d \in StagingFolders \ {uploadFolder} : meta'[d] = meta[d]
              ELSE /\ files' = {f \in files : ~IsUnder(f[1], folder[i])}
                   /\ \A d \in StagingFolders :
                         meta'[d] = IF IsUnder(d, folder[i]) THEN Absent ELSE meta[d]
      ]_vars

\* The root was cleaned while a subfolder held a descriptor and files, one of
\* them in a nested folder: they are still there.
C14_Witness ==
    \E i \in Handlers :
        /\ Did(i, "cleanup")
        /\ folder[i] = uploadFolder
        /\ <<uploadFolder, "x.jar">> \notin files
        /\ <<SubFolder, "y.jar">> \in files
        /\ <<NestedFolder, "x.jar">> \in files
        /\ meta[SubFolder] # Absent

(***************************************************************************)
(* C15: the name of a version group is the version up to its second dot    *)
(* (the first two dot-separated components joined by a dot); a version     *)
(* with fewer than two components is its own group name.                   *)
(***************************************************************************)
DotsOf(v) == {k \in 1..Len(v) : v[k] = Dot}
UpToSecondDot(v) ==
    IF Cardinality(DotsOf(v)) < 2 THEN v
    ELSE LET first == CHOOSE k \in DotsOf(v) : \A n \in DotsOf(v) : k <= n
             second == CHOOSE k \in DotsOf(v) \ {first} :
                          \A n \in DotsOf(v) \ {first} : k <= n
         IN  SubSeq(v, 1, second - 1)
SampleVersions ==
    {V1, V1_19_4, V1_19_3, <<>>, <<"1", Dot>>, <<"1", Dot, "19">>,
     <<Dot, "19", Dot, "4">>, <<"1", Dot, Dot, "4">>,
     <<"1", Dot, "19", Dot, "4", Dot, "2">>}
MajorVersionOfSamples == [v \in SampleVersions |-> majorVersion(v)]
UpToSecondDotOfSamples == [v \in SampleVersions |-> UpToSecondDot(v)]
C15_GroupNameIsMajorMinor ==
    /\ MajorVersionOfSamples = UpToSecondDotOfSamples
    /\ \A i \in Handlers :
          Did(i, "versionGroup") =>
              /\ versionGroup[i] \in version_groups
              /\ versionGroup[i].name = UpToSecondDot(metadata[i].version)
              /\ metadata[i].version = V1 => versionGroup[i].name = <<"1">>
              /\ metadata[i].version = V1_19_4 =>
                     versionGroup[i].name = <<"1", Dot, "19">>

\* A one-component version and a three-component version have their groups.
C15_Witness ==
    \E i, j \in Handlers :
        /\ Did(i, "versionGroup") /\ metadata[i].version = V1
        /\ Did(j, "versionGroup") /\ metadata[j].version = V1_19_4
        /\ {g.name : g \in version_groups} = {<<"1">>, <<"1", Dot, "19">>}

(***************************************************************************)
(* C16: no ingestion closes the shared client while another ingestion is   *)
(* between its connect and its last store command: an ingestion that is    *)
(* about to issue a find-or-create or its insert finds the client          *)
(* connected.  The finally of every ingestion closes the one client.       *)
(***************************************************************************)
C16_ClientOpenDuringStoreWork ==
    \A i \in Handlers :
        pc[i] \in {"project", "versionGroup", "version", "build"} \cup Upserting =>
            clientOpen

(***************************************************************************)
(* C17: the reader makes one read-and-parse attempt per add event, after   *)
(* the one delay, and then either hands the descriptor on or stops with    *)
(* one logged error; it never reads a second time.                         *)
(***************************************************************************)
ReadAttempts(i) == {k \in 1..Len(log[i]) : log[i][k].stage = "read"}
ReaderReadsOnce ==
    \A i \in Handlers :
        /\ Cardinality(ReadAttempts(i)) <= 1
        /\ pc[i] = "sleep" => log[i] = <<>>
        /\ pc[i] \notin {"idle", "sleep"} =>
              \/ /\ log[i][1] = Ev("read", "ok")
                 /\ metadata[i] \in ParsedDescriptors
              \/ /\ pc[i] = "done"
                 /\ log[i] \in {<<Ev("read", "empty")>>, <<Ev("read", "error")>>}

\* C17: holds of every handler throughout every run.
C17_ReaderReadsOnce == ReaderReadsOnce

\* One reader stopped on a file that was partly written and is complete by
\* now, another handed its descriptor on.
C17_Witness ==
    \E i, j \in Handlers :
        /\ log[i] = <<Ev("read", "error")>>
        /\ pc[i] = "done"
        /\ meta[folder[i]].kind = "full"
        /\ Did(j, "read") /\ pc[j] = "done"

(***************************************************************************)
(* C18: in every reachable store state each build refers to a project and  *)
(* a version that exist, the version belongs to that project, and the      *)
(* group of each version is a version group that exists, belongs to the    *)
(* project of the version and is named by the major.minor prefix of the    *)
(* version's name.                                                         *)
(***************************************************************************)
C18_ReferentiallyConsistent ==
    /\ \A b \in builds :
          /\ \E p \in projects : p.id = b.project
          /\ \E v \in versions : v.id = b.version /\ v.project = b.project
    /\ \A v \in versions :
          /\ \E p \in projects : p.id = v.project
          /\ \E g \in version_groups :
                /\ g.id = v.group
                /\ g.project = v.project
                /\ g.name = UpToSecondDot(v.name)
    /\ \A g \in version_groups : \E p \in projects : p.id = g.project

\* Builds of two projects, and two versions of one group, are in the store.
C18_Witness ==
    /\ \E b, c \in builds : b.project # c.project
    /\ Cardinality(versions) = 2
    /\ Cardinality(version_groups) = 2

(***************************************************************************)
(* C19: an ingestion whose copy failed issues no store command and never   *)
(* connects: each of its steps, the failing copy included, leaves the four *)
(* collections and the client as they were.                                *)
(***************************************************************************)
C19_FailedCopyLeavesStoreAlone ==
    [][\A i \in Handlers :
          CopyFailed(i)' =>
              /\ \A k \in 1..Len(log'[i]) : StageRank(log'[i][k].stage) \notin 3..8
              /\ pc'[i] \in {"cleanup", "done"}
              /\ log'[i] # log[i] => UNCHANGED <<storeVars, clientOpen>>
      ]_vars

\* Another ingestion filled the store and is inside its store section when
\* this one fails on a copy and ends.
C19_Witness ==
    \E i, j \in Handlers :
        /\ CopyFailed(i) /\ pc[i] = "done"
        /\ pc[j] = "build"
        /\ clientOpen
        /\ projects # {} /\ versions # {}
====
